---- MODULE Spec2Model ----
(***************************************************************************)
(* Local Whisper plugin: the transcription pipeline of the command         *)
(* "Transcribe Audio Link in Note" (scan, resolve, select, launch the      *)
(* whisper process, read the transcript, insert it below the link).        *)
(* Strings are sequences of one-character strings; offsets are zero-based  *)
(* as in the source, sequence indices are one-based.                       *)
(***************************************************************************)
EXTENDS Integers, Sequences, FiniteSets, TLC

\* ---------------------------------------------------------------- bounds
\* Number of command invocations that may overlap in one behaviour.
MaxInv == 2
\* Longest document text enumerated for the insertion function.
MaxLen == 3
\* Most pieces concatenated into a document text given to the scanner.
MaxTok == 3
\* Most calls of the command's checkCallback that start no pipeline.
MaxCalls == 2
\* Most edits the user makes to the note while invocations are suspended.
MaxEdits == 1

Inv == 1..MaxInv

\* ------------------------------------------------------- string helpers
NL == "\n"

Min(a, b) == IF a <= b THEN a ELSE b

Max(a, b) == IF a >= b THEN a ELSE b

\* String.prototype.substring(from, to): both ends clamped to [0, length],
\* swapped when from > to.
substring(s, from, to) ==
    LET f == Max(0, Min(from, Len(s)))
        t == Max(0, Min(to, Len(s)))
    IN  SubSeq(s, Min(f, t) + 1, Max(f, t))

\* String.prototype.split(sep) for a one-character separator: the segments
\* between separators; a string without separator is one segment.
RECURSIVE split(_, _)
split(s, sep) ==
    IF \A k \in 1..Len(s) : s[k] # sep
    THEN <<s>>
    ELSE LET k == CHOOSE k \in 1..Len(s) :
                      s[k] = sep /\ \A j \in 1..(k - 1) : s[j] # sep
         IN  <<SubSeq(s, 1, k - 1)>> \o split(SubSeq(s, k + 1, Len(s)), sep)

Whitespace == {" ", "\n", "\t", "\r"}

\* String.prototype.trim(): strips leading and trailing whitespace.
RECURSIVE trim(_)
trim(s) ==
    IF s = <<>> THEN s
    ELSE IF s[1] \in Whitespace THEN trim(Tail(s))
    ELSE IF s[Len(s)] \in Whitespace THEN trim(SubSeq(s, 1, Len(s) - 1))
    ELSE s

UpperChars == <<"A", "B", "C", "D", "E", "F", "G", "H", "I", "J", "K", "L", "M", "N", "O", "P", "Q", "R", "S", "T", "U", "V", "W", "X", "Y", "Z">>

LowerChars == <<"a", "b", "c", "d", "e", "f", "g", "h", "i", "j", "k", "l", "m", "n", "o", "p", "q", "r", "s", "t", "u", "v", "w", "x", "y", "z">>

\* Case folding of one character, as the regular expressions' "i" flag does.
Lower(c) ==
    IF \E k \in 1..Len(UpperChars) : UpperChars[k] = c
    THEN LowerChars[CHOOSE k \in 1..Len(UpperChars) : UpperChars[k] = c]
    ELSE c

toLower(s) == [k \in 1..Len(s) |-> Lower(s[k])]

\* ------------------------------------------------- insert_transcript.ts
\* The callout header of the inserted block.
CalloutHeader == <<">", "[", "!", "n", "o", "t", "e", "]", " ", "T", "r", "a", "n", "s", "c", "r", "i", "p", "t", "i", "o", "n">>

\* const preText = content.substring(0, endPos);
\* const lineIndex = preText.split("\n").length - 1;
lineIndex_OffByOne(content, endPos) ==
    Len(split(substring(content, 0, endPos), NL))

lineIndex(content, endPos) ==
    Len(split(substring(content, 0, endPos), NL)) - 1

\* const insertionPos = { line: lineIndex + 1, ch: 0 };
insertionPos_SameLine(content, endPos) ==
    [line |-> lineIndex(content, endPos), ch |-> 0]

insertionPos(content, endPos) ==
    [line |-> lineIndex(content, endPos) + 1, ch |-> 0]

\* const insertionText = `\n>[!note] Transcription\n${transcript}\n`;
insertionText(transcript) ==
    <<NL>> \o CalloutHeader \o <<NL>> \o transcript \o <<NL>>

\* Offset of the first character of line k (zero-based) of the given lines.
RECURSIVE lineFrom(_, _)
lineFrom(lines, k) ==
    IF k = 0 THEN 0 ELSE lineFrom(lines, k - 1) + Len(lines[k]) + 1

\* Editor.posToOffset: a line before the first line is offset 0, a line past
\* the last line is the end of the document, a column past the end of its
\* line is the end of that line.
posToOffset(content, pos) ==
    LET lines == split(content, NL)
    IN  IF pos.line < 0 THEN 0
        ELSE IF pos.line + 1 > Len(lines) THEN Len(content)
        ELSE lineFrom(lines, pos.line)
             + Max(0, Min(pos.ch, Len(lines[pos.line + 1])))

\* Editor.replaceRange(replacement, from) with no "to": inserts at "from".
replaceRange_Overwrite(content, replacement, from) ==
    LET off == posToOffset(content, from)
    IN  SubSeq(content, 1, off - 1) \o replacement
        \o SubSeq(content, off + 1, Len(content))

replaceRange(content, replacement, from) ==
    LET off == posToOffset(content, from)
    IN  SubSeq(content, 1, off) \o replacement
        \o SubSeq(content, off + 1, Len(content))

\* insertTranscriptBelowRange skipping a document that already holds a
\* transcript block.
insertTranscriptBelowRange_Dedup(content, startPos, endPos, transcript) ==
    IF \E k \in 1..Len(split(content, NL)) :
           split(content, NL)[k] = CalloutHeader
    THEN content
    ELSE replaceRange(content, insertionText(transcript),
                      insertionPos(content, endPos))

\* insertTranscriptBelowRange: the editor text after the call, given the
\* editor text before it.  startPos is accepted and not used by the code.
insertTranscriptBelowRange(content, startPos, endPos, transcript) ==
    replaceRange(content, insertionText(transcript),
                 insertionPos(content, endPos))

\* ------------------------------------------------------- link_finder.ts
\* const audioExtensions = ["mp3", "wav", "m4a", "flac", "ogg", "aac"];
audioExtensions ==
    << <<"m", "p", "3">>, <<"w", "a", "v">>, <<"m", "4", "a">>, <<"f", "l", "a", "c">>, <<"o", "g", "g">>, <<"a", "a", "c">> >>

\* The pattern without the "i" flag.
endsWithExtPattern_CaseSensitive(s) ==
    \E e \in 1..Len(audioExtensions) :
        LET x == audioExtensions[e]
        IN  /\ Len(s) > Len(x)
            /\ SubSeq(s, Len(s) - Len(x) + 1, Len(s)) = x

\* ([^)]+(?:mp3|wav|m4a|flac|ogg|aac)) and ([^\]]+(?:...)) matched against a
\* whole capture under the "i" flag: one of the extensions' letters at the
\* end, at least one character before them.
endsWithExtPattern(s) ==
    \E e \in 1..Len(audioExtensions) :
        LET x == audioExtensions[e]
        IN  /\ Len(s) > Len(x)
            /\ toLower(SubSeq(s, Len(s) - Len(x) + 1, Len(s))) = x

\* Index of the first occurrence of character c at or after index from
\* (one-based); 0 when there is none.
firstIndexOf(text, c, from) ==
    IF \E k \in from..Len(text) : text[k] = c
    THEN CHOOSE k \in from..Len(text) :
             text[k] = c /\ \A j \in from..(k - 1) : text[j] # c
    ELSE 0

\* First alternative, \[([^\]]*)\]\(([^)]+(?:ext))\), tried at index i:
\* the index of its closing parenthesis, 0 when it does not match there.
\* The label ends at the first "]" and the path at the first ")".
mdLinkEnd(text, i) ==
    IF i > Len(text) \/ text[i] # "[" THEN 0
    ELSE LET j == firstIndexOf(text, "]", i + 1)
         IN  IF j = 0 \/ j + 1 > Len(text) \/ text[j + 1] # "(" THEN 0
             ELSE LET k == firstIndexOf(text, ")", j + 2)
                  IN  IF k = 0 THEN 0
                      ELSE IF endsWithExtPattern(SubSeq(text, j + 2, k - 1))
                      THEN k ELSE 0

\* match[2] of the first alternative matched at i.
mdLinkText(text, i) ==
    LET j == firstIndexOf(text, "]", i + 1)
    IN  SubSeq(text, j + 2, mdLinkEnd(text, i) - 1)

\* Second alternative, \[\[([^\]]+(?:ext))\]\], tried at index i: the index
\* of its last "]", 0 when it does not match there.
wikiLinkEnd(text, i) ==
    IF i + 1 > Len(text) \/ text[i] # "[" \/ text[i + 1] # "[" THEN 0
    ELSE LET j == firstIndexOf(text, "]", i + 2)
         IN  IF j = 0 \/ j + 1 > Len(text) \/ text[j + 1] # "]" THEN 0
             ELSE IF endsWithExtPattern(SubSeq(text, i + 2, j - 1))
             THEN j + 1 ELSE 0

\* match[3] of the second alternative matched at i.
wikiLinkText(text, i) == SubSeq(text, i + 2, wikiLinkEnd(text, i) - 2)

\* The regular expression matches at index i (alternatives in order).
matchesAt(text, i) == mdLinkEnd(text, i) # 0 \/ wikiLinkEnd(text, i) # 0

\* The loop with each search resuming one character after the start of the
\* previous match.
RECURSIVE execLoop_Overlap(_, _)
execLoop_Overlap(text, lastIndex) ==
    IF \A i \in (lastIndex + 1)..Len(text) : ~matchesAt(text, i)
    THEN <<>>
    ELSE LET i == CHOOSE i \in (lastIndex + 1)..Len(text) :
                      /\ matchesAt(text, i)
                      /\ \A h \in (lastIndex + 1)..(i - 1) : ~matchesAt(text, h)
             md == mdLinkEnd(text, i) # 0
             end == IF md THEN mdLinkEnd(text, i) ELSE wikiLinkEnd(text, i)
             linkText == IF md THEN mdLinkText(text, i)
                         ELSE wikiLinkText(text, i)
         IN  << [linkText |-> linkText, startPos |-> i - 1, endPos |-> end] >>
             \o execLoop_Overlap(text, i)

\* while ((match = linkRegex.exec(noteContent)) !== null) { ... }: the
\* matches found from lastIndex on (zero-based), leftmost first, each search
\* resuming at the end of the previous match.
RECURSIVE execLoop(_, _)
execLoop(text, lastIndex) ==
    IF \A i \in (lastIndex + 1)..Len(text) : ~matchesAt(text, i)
    THEN <<>>
    ELSE LET i == CHOOSE i \in (lastIndex + 1)..Len(text) :
                      /\ matchesAt(text, i)
                      /\ \A h \in (lastIndex + 1)..(i - 1) : ~matchesAt(text, h)
             md == mdLinkEnd(text, i) # 0
             end == IF md THEN mdLinkEnd(text, i) ELSE wikiLinkEnd(text, i)
             linkText == IF md THEN mdLinkText(text, i)
                         ELSE wikiLinkText(text, i)
         IN  (IF linkText = <<>> THEN <<>>
              ELSE << [linkText |-> linkText,
                       startPos |-> i - 1,
                       endPos |-> end] >>)
             \o execLoop(text, end)

findAudioLinkMatches(noteContent) == execLoop(noteContent, 0)

\* --------------------------------------------- main.ts (findAudioLinks)
\* Second alternative of findAudioLinks, \[\[([^\[]+(?:ext))\]\], tried at
\* index i: the index of its last "]", 0 when it does not match there.  The
\* capture holds no "[" and is greedy: it ends at the last place before the
\* next "[" where an extension is followed by "]]".
bracketLinkEnd(text, i) ==
    IF i + 1 > Len(text) \/ text[i] # "[" \/ text[i + 1] # "[" THEN 0
    ELSE LET stop == firstIndexOf(text, "[", i + 2)
             limit == IF stop = 0 THEN Len(text) ELSE stop - 1
             ends == { k \in (i + 2)..(limit - 2) :
                          /\ endsWithExtPattern(SubSeq(text, i + 2, k))
                          /\ text[k + 1] = "]"
                          /\ text[k + 2] = "]" }
         IN  IF ends = {} THEN 0
             ELSE (CHOOSE k \in ends : \A h \in ends : h <= k) + 2

\* match[3] of that alternative matched at i.
bracketLinkText(text, i) == SubSeq(text, i + 2, bracketLinkEnd(text, i) - 2)

\* findAudioLinks' regular expression matches at index i.
linkRegexAt(text, i) == mdLinkEnd(text, i) # 0 \/ bracketLinkEnd(text, i) # 0

\* while ((match = linkRegex.exec(noteContent)) !== null) { ... } of
\* findAudioLinks: the results from lastIndex on.
RECURSIVE findAudioLinksFrom(_, _)
findAudioLinksFrom(text, lastIndex) ==
    IF \A i \in (lastIndex + 1)..Len(text) : ~linkRegexAt(text, i)
    THEN <<>>
    ELSE LET i == CHOOSE i \in (lastIndex + 1)..Len(text) :
                      /\ linkRegexAt(text, i)
                      /\ \A h \in (lastIndex + 1)..(i - 1) : ~linkRegexAt(text, h)
             md == mdLinkEnd(text, i) # 0
             end == IF md THEN mdLinkEnd(text, i) ELSE bracketLinkEnd(text, i)
             filePath == IF md THEN mdLinkText(text, i)
                         ELSE bracketLinkText(text, i)
         IN  (IF filePath = <<>> THEN <<>>
              ELSE << [filePath |-> filePath,
                       startPos |-> i - 1,
                       endPos |-> end] >>)
             \o findAudioLinksFrom(text, end)

findAudioLinks(noteContent) == findAudioLinksFrom(noteContent, 0)

\* The audio files of the vault, by vault-relative path.
VaultFiles == { <<"a", "/", "m", ".", "m", "4", "a">>, <<"b", "/", "m", ".", "m", "p", "3">>, <<"c", ".", "W", "A", "V">> }

\* app.metadataCache.getFirstLinkpathDest(linkText, currentFilePath): the
\* file of that path when the vault has one, else nothing (null).
getFirstLinkpathDest(linkText) ==
    IF linkText \in VaultFiles THEN << [path |-> linkText] >> ELSE <<>>

\* The resolver putting each resolved match in front of the earlier ones.
RECURSIVE resolveMatchesToFiles_Reversed(_)
resolveMatchesToFiles_Reversed(linkMatches) ==
    IF linkMatches = <<>> THEN <<>>
    ELSE LET match == Head(linkMatches)
             tfile == getFirstLinkpathDest(match.linkText)
         IN  resolveMatchesToFiles_Reversed(Tail(linkMatches))
             \o (IF tfile # <<>>
                 THEN << [tfile |-> tfile[1],
                          startPos |-> match.startPos,
                          endPos |-> match.endPos] >>
                 ELSE <<>>)

\* resolveMatchesToFiles: the matches that resolve, in order, each with its
\* file and its unchanged offsets.
RECURSIVE resolveMatchesToFiles(_)
resolveMatchesToFiles(linkMatches) ==
    IF linkMatches = <<>> THEN <<>>
    ELSE LET match == Head(linkMatches)
             tfile == getFirstLinkpathDest(match.linkText)
         IN  (IF tfile # <<>>
              THEN << [tfile |-> tfile[1],
                       startPos |-> match.startPos,
                       endPos |-> match.endPos] >>
              ELSE <<>>)
             \o resolveMatchesToFiles(Tail(linkMatches))

\* ----------------------------------------------------- transcription.ts
\* adapter.getBasePath()
VaultRoot == <<"/", "v">>

\* The output directory passed to whisper as --output_dir.
OutputDir == <<"/", "t", "m", "p">>

\* require("path").join(vaultRoot, selected.tfile.path) for a vault-relative
\* path without "." or ".." segments.
pathJoin(root, rel) == root \o <<"/">> \o rel

\* path.basename(p): what follows the last "/".
basename(p) ==
    IF \A k \in 1..Len(p) : p[k] # "/" THEN p
    ELSE LET k == CHOOSE k \in 1..Len(p) :
                      p[k] = "/" /\ \A j \in (k + 1)..Len(p) : p[j] # "/"
         IN  SubSeq(p, k + 1, Len(p))

\* baseName.replace(/\.(mp3|wav|m4a|flac|ogg|aac)$/i, "")
stripAudioExt(baseName) ==
    IF \E e \in 1..Len(audioExtensions) :
           LET x == <<".">> \o audioExtensions[e]
           IN  /\ Len(baseName) >= Len(x)
               /\ toLower(SubSeq(baseName, Len(baseName) - Len(x) + 1,
                                 Len(baseName))) = x
    THEN LET e == CHOOSE e \in 1..Len(audioExtensions) :
                      LET x == <<".">> \o audioExtensions[e]
                      IN  /\ Len(baseName) >= Len(x)
                          /\ toLower(SubSeq(baseName,
                                            Len(baseName) - Len(x) + 1,
                                            Len(baseName))) = x
         IN  SubSeq(baseName, 1, Len(baseName) - Len(audioExtensions[e]) - 1)
    ELSE baseName

\* const model = "medium";
WhisperModel == <<"m", "e", "d", "i", "u", "m">>

\* runWhisperCLI: the args given to execFile.
whisperArgs(audioPath, model) ==
    << audioPath, <<"-", "-", "m", "o", "d", "e", "l">>, model, <<"-", "-", "o", "u", "t", "p", "u", "t", "_", "f", "o", "r", "m", "a", "t">>, <<"t", "x", "t">>,
       <<"-", "-", "o", "u", "t", "p", "u", "t", "_", "d", "i", "r">>, <<"/", "t", "m", "p">> >>

\* The transcript path derived from the whole audio path.
getTranscriptPathInTmp_KeepDir(audioPath) ==
    <<"/", "t", "m", "p", "/">> \o stripAudioExt(audioPath) \o <<".", "t", "x", "t">>

\* getTranscriptPathInTmp: `/tmp/${coreName}.txt`
getTranscriptPathInTmp(audioPath) ==
    <<"/", "t", "m", "p", "/">> \o stripAudioExt(basename(audioPath)) \o <<".", "t", "x", "t">>

\* The file the whisper process writes for an audio path: the base name
\* with its last extension removed, plus ".txt", in --output_dir.
whisperOutputPath(audioPath) ==
    LET b == basename(audioPath)
        core == IF \E k \in 2..Len(b) : b[k] = "."
                THEN SubSeq(b, 1, (CHOOSE k \in 2..Len(b) :
                         b[k] = "." /\ \A j \in (k + 1)..Len(b) : b[j] # ".") - 1)
                ELSE b
    IN  OutputDir \o <<"/">> \o core \o <<".", "t", "x", "t">>

\* What whisper writes for each audio file of the vault: the recognised
\* speech followed by a line break.
recordingText(rel) ==
    IF rel = <<"a", "/", "m", ".", "m", "4", "a">> THEN <<" ", "a", "l", "p", "h", "a", "\n">>
    ELSE IF rel = <<"b", "/", "m", ".", "m", "p", "3">> THEN <<"b", "e", "t", "a", "\n">>
    ELSE <<"c", "\n", "d", "\n">>

\* Paths of the output directory the model tracks.
TmpPaths ==
    UNION { { getTranscriptPathInTmp(pathJoin(VaultRoot, f)),
              whisperOutputPath(pathJoin(VaultRoot, f)) } : f \in VaultFiles }

\* fs.readFileSync(path, "utf-8") succeeds.
canRead(files, transcriptPath) ==
    transcriptPath \in DOMAIN files /\ files[transcriptPath] # <<>>

\* readTranscriptFile: the trimmed contents.
readTranscriptFile(files, transcriptPath) == trim(files[transcriptPath][1])

\* ------------------------------------------------- state of the plugin
VARIABLES
    doc,                \* the editor text (editor.getValue())
    localFs,            \* app.vault.adapter instanceof FileSystemAdapter
    tmp,                \* files of the output directory: path -> <<>> or <<contents>>
    pc,                 \* per invocation: "idle", "modal", "whisper", "done"
    noteContent,        \* per invocation: the text read at the scan
    audioFiles,         \* per invocation: the resolved references
    buttons,            \* per invocation: the buttons of its modal's contentEl
    modalOpen,          \* per invocation: its modal is open
    prompts,            \* per invocation: how many modals it has opened
    clicked,            \* per invocation: <<>> or <<the button clicked>>
    selected,           \* per invocation: <<>> or <<the reference selected>>
    absoluteAudioPath,  \* per invocation: <<>> or <<the path given to whisper>>
    proc,               \* per invocation: "none", "running", "wrote", "exit0", "failed"
    transcript,         \* per invocation: the transcript read
    notices,            \* per invocation: the notices shown, in order
    stages,             \* per invocation: the stages entered, in order
    outcome,            \* per invocation: how it ended ("none" while it has not)
    insArgs,            \* arguments of a direct call of insertTranscriptBelowRange
    insPos,             \* <<>> or <<the insertionPos that call computed>>
    scanIn,             \* the document text given to the scanner directly
    scanMatches,        \* <<>> or <<what findAudioLinkMatches returned for it>>
    scanResults,        \* <<>> or <<what findAudioLinks returned for it>>
    calls,              \* number of calls of the command's checkCallback
    lastCall,           \* <<>> or <<the last call: checking, mdView, returned>>
    console,            \* per invocation: what console.error logged
    namIn,              \* the audio file whose names are derived directly
    namOut,             \* <<>> or <<the whisper arguments and the transcript path>>
    edits,              \* number of edits the user has made to the note
    scanFiles           \* <<>> or <<what resolveMatchesToFiles returned>>

vars == << doc, localFs, tmp, pc, noteContent, audioFiles, buttons, modalOpen,
           prompts, clicked, selected, absoluteAudioPath, proc, transcript,
           notices, stages, outcome, insArgs, insPos, scanIn, scanMatches,
           scanResults, scanFiles, calls, lastCall, console, namIn, namOut,
           edits >>

\* The state of the pipelines.
pipeVars == << doc, localFs, tmp, pc, noteContent, audioFiles, buttons,
               modalOpen, prompts, clicked, selected, absoluteAudioPath,
               proc, transcript, notices, stages, outcome, console >>

\* The record of the calls of checkCallback.
cmdVars == << calls, lastCall >>

insVars == << insArgs, insPos >>

scanVars == << scanIn, scanMatches, scanResults, scanFiles >>

\* What the pipeline leaves alone: the state of the direct calls and the
\* count of the user's edits.
namVars == << namIn, namOut >>

pureVars == << insVars, scanVars, namVars, edits >>

\* The errors execFile rejects with: whisper could not be spawned, or it
\* exited with a non-zero status.
ExecErrors == { "spawn /opt/homebrew/bin/whisper ENOENT", "Command failed" }

\* The error fs.readFileSync throws for a path it cannot read.
readError(path) == [code |-> "ENOENT", path |-> path]

\* console.error(msg, err).
logged(msg, err) == [msg |-> msg, err |-> err]

\* The stages of transcribeAudioInCurrentNote, in the order of its code.
StageOrder ==
    << "scan", "resolve", "select", "abspath", "launch", "read", "insert" >>

notice(msg, arg) == [msg |-> msg, arg |-> arg]

NoLinksNotice == notice("No valid audio links found in this note.", <<>>)

TranscribingNotice(sel) == notice("Transcribing: ${path} ...", sel.tfile.path)

NotLocalNotice == notice("Your vault is not on a local file system.", <<>>)

WhisperErrorNotice ==
    notice("Error running Whisper. See console for details.", <<>>)

ReadErrorNotice == notice("Could not read the transcript file.", <<>>)

InsertedNotice == notice("Transcription inserted!", <<>>)

\* The documents a behaviour may start from.
DocNoLink == <<"a", "b", "\n", "[", "[", "x", ".", "t", "x", "t", "]", "]">>

DocUnresolved == <<"[", "[", "z", "z", ".", "m", "p", "3", "]", "]">>

DocLastLine == <<"S", "e", "e", " ", "[", "[", "c", ".", "W", "A", "V", "]", "]", " ", "o", "k">>

DocMiddle == <<"[", "l", "]", "(", "c", ".", "W", "A", "V", ")", "\n", "x">>

DocTwo == <<"[", "[", "a", "/", "m", ".", "m", "4", "a", "]", "]", " ", "[", "[", "z", "z", ".", "m", "p", "3", "]", "]", "\n", "[", "l", "]", "(", "b", "/", "m", ".", "m", "p", "3", ")">>

DocDuplicate == <<"[", "[", "c", ".", "W", "A", "V", "]", "]", "[", "[", "c", ".", "W", "A", "V", "]", "]", "\n">>

Docs == { DocNoLink, DocUnresolved, DocLastLine, DocMiddle, DocTwo,
          DocDuplicate }

NoInsArgs ==
    [content |-> <<>>, startPos |-> 0, endPos |-> 0, transcript |-> <<>>]

\* No invocation has started.
PipelineIdle ==
    /\ tmp = [p \in TmpPaths |-> <<>>]
    /\ pc = [i \in Inv |-> "idle"]
    /\ noteContent = [i \in Inv |-> <<>>]
    /\ audioFiles = [i \in Inv |-> <<>>]
    /\ buttons = [i \in Inv |-> <<>>]
    /\ modalOpen = [i \in Inv |-> FALSE]
    /\ prompts = [i \in Inv |-> 0]
    /\ clicked = [i \in Inv |-> <<>>]
    /\ selected = [i \in Inv |-> <<>>]
    /\ absoluteAudioPath = [i \in Inv |-> <<>>]
    /\ proc = [i \in Inv |-> "none"]
    /\ transcript = [i \in Inv |-> <<>>]
    /\ notices = [i \in Inv |-> <<>>]
    /\ stages = [i \in Inv |-> <<>>]
    /\ outcome = [i \in Inv |-> "none"]
    /\ console = [i \in Inv |-> <<>>]
    /\ edits = 0
    /\ calls = 0
    /\ lastCall = <<>>

\* No direct call of insertTranscriptBelowRange.
InsertIdle ==
    /\ insArgs = NoInsArgs
    /\ insPos = <<>>

NoScanIn == [kind |-> "none", text |-> <<>>, path |-> <<>>, start |-> 0, end |-> 0]

\* No direct call of the scanner or the resolver.
ScanIdle ==
    /\ scanIn = NoScanIn
    /\ scanMatches = <<>>
    /\ scanResults = <<>>
    /\ scanFiles = <<>>

NoNamIn == [dir |-> <<>>, stem |-> <<>>, ext |-> <<>>, recognized |-> FALSE]

\* No direct derivation of the names.
NamingIdle ==
    /\ namIn = NoNamIn
    /\ namOut = <<>>

Init ==
    /\ doc \in Docs
    /\ localFs \in BOOLEAN
    /\ PipelineIdle
    /\ InsertIdle
    /\ ScanIdle
    /\ NamingIdle

\* ------------------------------------------------ choose_link_modal.ts
\* ChooseLinkModal.onOpen: one button per item, then the Cancel button.
\* A button is its text and the value its click handler resolves with.
onOpen_Dedup(items) ==
    LET first(k) == \A j \in 1..(k - 1) : items[j].tfile # items[k].tfile
        RECURSIVE keep(_)
        keep(k) == IF k > Len(items) THEN <<>>
                   ELSE (IF first(k)
                         THEN << [text |-> items[k].tfile.path,
                                  value |-> <<items[k]>>] >>
                         ELSE <<>>) \o keep(k + 1)
    IN  keep(1) \o << [text |-> <<"C", "a", "n", "c", "e", "l">>, value |-> <<>>] >>

onOpen(items) ==
    [k \in 1..Len(items) |->
        [text |-> items[k].tfile.path, value |-> <<items[k]>>]]
    \o << [text |-> <<"C", "a", "n", "c", "e", "l">>, value |-> <<>>] >>

\* ------------------------------------------------------------- main.ts
\* transcribeAudioInCurrentNote from "new Notice(`Transcribing: ...`)" to
\* the await of runWhisperCLI, for invocation i with reference sel selected
\* and stages st entered so far.
afterSelected(i, sel, st) ==
    /\ selected' = [selected EXCEPT ![i] = <<sel>>]
    /\ IF ~localFs
       THEN /\ notices' = [notices EXCEPT
                   ![i] = @ \o <<TranscribingNotice(sel), NotLocalNotice>>]
            /\ pc' = [pc EXCEPT ![i] = "done"]
            /\ outcome' = [outcome EXCEPT ![i] = "notlocal"]
            /\ stages' = [stages EXCEPT ![i] = st \o <<"abspath">>]
            /\ UNCHANGED << absoluteAudioPath, proc >>
       ELSE /\ notices' = [notices EXCEPT ![i] = @ \o <<TranscribingNotice(sel)>>]
            /\ absoluteAudioPath' = [absoluteAudioPath EXCEPT
                   ![i] = <<pathJoin(VaultRoot, sel.tfile.path)>>]
            /\ proc' = [proc EXCEPT ![i] = "running"]
            /\ pc' = [pc EXCEPT ![i] = "whisper"]
            /\ stages' = [stages EXCEPT ![i] = st \o <<"abspath", "launch">>]
            /\ UNCHANGED outcome

\* checkCallback returns ret, called with checking and with (mdView) or
\* without an active Markdown view.
returned(checking, mdView, ret) ==
    /\ calls' = calls + 1
    /\ lastCall' = << [checking |-> checking, mdView |-> mdView, ret |-> ret] >>

\* transcribeAudioInCurrentNote(mdView) run to its first await or return,
\* as invocation i.  Invocations are numbered in the order the command is
\* issued; the command is not issued while a modal is open.
transcribeAudioInCurrentNote(i) ==
    /\ pc[i] = "idle"
    /\ \A j \in Inv : (j < i => pc[j] # "idle") /\ ~modalOpen[j]
    /\ LET linkMatches == findAudioLinkMatches(doc)
           files == resolveMatchesToFiles(linkMatches)
           st == <<"scan", "resolve">>
       IN  /\ noteContent' = [noteContent EXCEPT ![i] = doc]
           /\ audioFiles' = [audioFiles EXCEPT ![i] = files]
           /\ IF Len(files) = 0
              THEN /\ notices' = [notices EXCEPT ![i] = @ \o <<NoLinksNotice>>]
                   /\ pc' = [pc EXCEPT ![i] = "done"]
                   /\ outcome' = [outcome EXCEPT ![i] = "nolinks"]
                   /\ stages' = [stages EXCEPT ![i] = st]
                   /\ UNCHANGED << buttons, modalOpen, prompts, selected,
                                   absoluteAudioPath, proc >>
              ELSE IF Len(files) = 1
              THEN /\ afterSelected(i, files[1], st \o <<"select">>)
                   /\ UNCHANGED << buttons, modalOpen, prompts >>
              ELSE /\ buttons' = [buttons EXCEPT ![i] = onOpen(files)]
                   /\ modalOpen' = [modalOpen EXCEPT ![i] = TRUE]
                   /\ prompts' = [prompts EXCEPT ![i] = @ + 1]
                   /\ pc' = [pc EXCEPT ![i] = "modal"]
                   /\ stages' = [stages EXCEPT ![i] = st \o <<"select">>]
                   /\ UNCHANGED << notices, outcome, selected,
                                   absoluteAudioPath, proc >>
    /\ UNCHANGED << doc, localFs, tmp, clicked, transcript, console, pureVars >>

\* The command's checkCallback with checking = false and a Markdown view
\* active: the pipeline is started and true returned.
Invoke(i) ==
    /\ transcribeAudioInCurrentNote(i)
    /\ returned(FALSE, TRUE, TRUE)

\* Click on the button of an item: resolveFn(item); this.close() (onClose
\* empties contentEl); the pipeline resumes with that item.
ClickItem(i, k) ==
    /\ pc[i] = "modal" /\ modalOpen[i]
    /\ k \in 1..Len(buttons[i])
    /\ buttons[i][k].value # <<>>
    /\ clicked' = [clicked EXCEPT ![i] = <<buttons[i][k]>>]
    /\ modalOpen' = [modalOpen EXCEPT ![i] = FALSE]
    /\ buttons' = [buttons EXCEPT ![i] = <<>>]
    /\ afterSelected(i, buttons[i][k].value[1], stages[i])
    /\ UNCHANGED << doc, localFs, tmp, noteContent, audioFiles, prompts,
                    transcript, console, pureVars, cmdVars >>

\* Click on Cancel: resolveFn(null); this.close(); "if (!chosen) return;".
ClickCancel_Notice(i) ==
    /\ pc[i] = "modal" /\ modalOpen[i]
    /\ \E k \in 1..Len(buttons[i]) :
          /\ buttons[i][k].value = <<>>
          /\ clicked' = [clicked EXCEPT ![i] = <<buttons[i][k]>>]
    /\ modalOpen' = [modalOpen EXCEPT ![i] = FALSE]
    /\ buttons' = [buttons EXCEPT ![i] = <<>>]
    /\ pc' = [pc EXCEPT ![i] = "done"]
    /\ outcome' = [outcome EXCEPT ![i] = "cancelled"]
    /\ notices' = [notices EXCEPT ![i] = @ \o <<NoLinksNotice>>]
    /\ UNCHANGED << doc, localFs, tmp, noteContent, audioFiles, prompts,
                    selected, absoluteAudioPath, proc, transcript,
                    stages, console, pureVars, cmdVars >>

ClickCancel(i) ==
    /\ pc[i] = "modal" /\ modalOpen[i]
    /\ \E k \in 1..Len(buttons[i]) :
          /\ buttons[i][k].value = <<>>
          /\ clicked' = [clicked EXCEPT ![i] = <<buttons[i][k]>>]
    /\ modalOpen' = [modalOpen EXCEPT ![i] = FALSE]
    /\ buttons' = [buttons EXCEPT ![i] = <<>>]
    /\ pc' = [pc EXCEPT ![i] = "done"]
    /\ outcome' = [outcome EXCEPT ![i] = "cancelled"]
    /\ UNCHANGED << doc, localFs, tmp, noteContent, audioFiles, prompts,
                    selected, absoluteAudioPath, proc, transcript, notices,
                    stages, console, pureVars, cmdVars >>

\* The modal is closed without a click (Escape, click outside): onClose
\* empties contentEl; resolveFn is not called, the pipeline stays suspended.
CloseModal(i) ==
    /\ pc[i] = "modal" /\ modalOpen[i]
    /\ modalOpen' = [modalOpen EXCEPT ![i] = FALSE]
    /\ buttons' = [buttons EXCEPT ![i] = <<>>]
    /\ UNCHANGED << doc, localFs, tmp, pc, noteContent, audioFiles, prompts,
                    clicked, selected, absoluteAudioPath, proc, transcript,
                    notices, stages, outcome, console, pureVars, cmdVars >>

\* The whisper process of invocation i writes its output file.
ProcWrite(i) ==
    /\ proc[i] = "running"
    /\ LET audioPath == absoluteAudioPath[i][1]
       IN  tmp' = [tmp EXCEPT ![whisperOutputPath(audioPath)] =
                       <<recordingText(selected[i][1].tfile.path)>>]
    /\ proc' = [proc EXCEPT ![i] = "wrote"]
    /\ UNCHANGED << doc, localFs, pc, noteContent, audioFiles, buttons,
                    modalOpen, prompts, clicked, selected, absoluteAudioPath,
                    transcript, notices, stages, outcome, console, pureVars, cmdVars >>

\* execFile fails to spawn whisper or whisper exits non-zero: the await of
\* runWhisperCLI throws, the catch shows a notice and returns.
ExecRejected_Swallow(i) ==
    /\ pc[i] = "whisper" /\ proc[i] \in {"running", "wrote"}
    /\ proc' = [proc EXCEPT ![i] = "failed"]
    /\ pc' = [pc EXCEPT ![i] = "done"]
    /\ LET transcriptPath == getTranscriptPathInTmp(absoluteAudioPath[i][1])
           sel == selected[i][1]
       IN  IF ~canRead(tmp, transcriptPath)
           THEN /\ notices' = [notices EXCEPT
                       ![i] = @ \o <<WhisperErrorNotice, ReadErrorNotice>>]
                /\ outcome' = [outcome EXCEPT ![i] = "readfail"]
                /\ stages' = [stages EXCEPT ![i] = @ \o <<"read">>]
                /\ UNCHANGED << doc, transcript >>
           ELSE LET text == readTranscriptFile(tmp, transcriptPath)
                IN  /\ transcript' = [transcript EXCEPT ![i] = text]
                    /\ doc' = insertTranscriptBelowRange(
                                  doc, sel.startPos, sel.endPos, text)
                    /\ notices' = [notices EXCEPT
                           ![i] = @ \o <<WhisperErrorNotice, InsertedNotice>>]
                    /\ outcome' = [outcome EXCEPT ![i] = "inserted"]
                    /\ stages' = [stages EXCEPT ![i] = @ \o <<"read", "insert">>]
    /\ UNCHANGED << localFs, tmp, noteContent, audioFiles, buttons, modalOpen,
                    prompts, clicked, selected, absoluteAudioPath, console,
                    pureVars, cmdVars >>

ExecRejected_Retry(i) ==
    /\ pc[i] = "whisper" /\ proc[i] \in {"running", "wrote"}
    /\ Len(stages[i]) < Len(StageOrder)
    /\ proc' = [proc EXCEPT ![i] = "running"]
    /\ stages' = [stages EXCEPT ![i] = @ \o <<"launch">>]
    /\ UNCHANGED << doc, localFs, tmp, pc, noteContent, audioFiles, buttons,
                    modalOpen, prompts, clicked, selected, absoluteAudioPath,
                    transcript, notices, outcome, console, pureVars, cmdVars >>

ExecRejected_Detail(i) ==
    /\ pc[i] = "whisper" /\ proc[i] \in {"running", "wrote"}
    /\ proc' = [proc EXCEPT ![i] = "failed"]
    /\ \E err \in ExecErrors :
          /\ console' = [console EXCEPT
                 ![i] = @ \o <<logged("Error running Whisper:", err)>>]
          /\ notices' = [notices EXCEPT
                 ![i] = @ \o <<notice(WhisperErrorNotice.msg, <<err>>)>>]
    /\ pc' = [pc EXCEPT ![i] = "done"]
    /\ outcome' = [outcome EXCEPT ![i] = "procfail"]
    /\ UNCHANGED << doc, localFs, tmp, noteContent, audioFiles, buttons,
                    modalOpen, prompts, clicked, selected, absoluteAudioPath,
                    transcript, stages, pureVars, cmdVars >>

ExecRejected(i) ==
    /\ pc[i] = "whisper" /\ proc[i] \in {"running", "wrote"}
    /\ proc' = [proc EXCEPT ![i] = "failed"]
    /\ \E err \in ExecErrors :
          console' = [console EXCEPT
              ![i] = @ \o <<logged("Error running Whisper:", err)>>]
    /\ notices' = [notices EXCEPT ![i] = @ \o <<WhisperErrorNotice>>]
    /\ pc' = [pc EXCEPT ![i] = "done"]
    /\ outcome' = [outcome EXCEPT ![i] = "procfail"]
    /\ UNCHANGED << doc, localFs, tmp, noteContent, audioFiles, buttons,
                    modalOpen, prompts, clicked, selected, absoluteAudioPath,
                    transcript, stages, pureVars, cmdVars >>

\* The continuation scanning the note again for the selected reference.
ExecResolved_Revalidate(i) ==
    /\ pc[i] = "whisper" /\ proc[i] \in {"running", "wrote"}
    /\ proc' = [proc EXCEPT ![i] = "exit0"]
    /\ pc' = [pc EXCEPT ![i] = "done"]
    /\ LET transcriptPath == getTranscriptPathInTmp(absoluteAudioPath[i][1])
           now == resolveMatchesToFiles(findAudioLinkMatches(doc))
           sel == now[CHOOSE k \in 1..Len(audioFiles[i]) :
                          audioFiles[i][k] = selected[i][1]]
       IN  IF ~canRead(tmp, transcriptPath)
           THEN /\ notices' = [notices EXCEPT ![i] = @ \o <<ReadErrorNotice>>]
                /\ outcome' = [outcome EXCEPT ![i] = "readfail"]
                /\ stages' = [stages EXCEPT ![i] = @ \o <<"read">>]
                /\ console' = [console EXCEPT
                       ![i] = @ \o <<logged("Could not read transcript:",
                                            readError(transcriptPath))>>]
                /\ UNCHANGED << doc, transcript >>
           ELSE LET text == readTranscriptFile(tmp, transcriptPath)
                IN  /\ transcript' = [transcript EXCEPT ![i] = text]
                    /\ doc' = insertTranscriptBelowRange(
                                  doc, sel.startPos, sel.endPos, text)
                    /\ notices' = [notices EXCEPT ![i] = @ \o <<InsertedNotice>>]
                    /\ outcome' = [outcome EXCEPT ![i] = "inserted"]
                    /\ stages' = [stages EXCEPT ![i] = @ \o <<"read", "insert">>]
                    /\ UNCHANGED console
    /\ UNCHANGED << localFs, tmp, noteContent, audioFiles, buttons, modalOpen,
                    prompts, clicked, selected, absoluteAudioPath, pureVars, cmdVars >>

\* whisper exits with status 0: the await of runWhisperCLI returns and the
\* rest of transcribeAudioInCurrentNote runs: the transcript path, the read
\* (a notice and return when it throws), the insertion, the final notice.
ExecResolved(i) ==
    /\ pc[i] = "whisper" /\ proc[i] \in {"running", "wrote"}
    /\ proc' = [proc EXCEPT ![i] = "exit0"]
    /\ pc' = [pc EXCEPT ![i] = "done"]
    /\ LET transcriptPath == getTranscriptPathInTmp(absoluteAudioPath[i][1])
           sel == selected[i][1]
       IN  IF ~canRead(tmp, transcriptPath)
           THEN /\ notices' = [notices EXCEPT ![i] = @ \o <<ReadErrorNotice>>]
                /\ outcome' = [outcome EXCEPT ![i] = "readfail"]
                /\ stages' = [stages EXCEPT ![i] = @ \o <<"read">>]
                /\ console' = [console EXCEPT
                       ![i] = @ \o <<logged("Could not read transcript:",
                                            readError(transcriptPath))>>]
                /\ UNCHANGED << doc, transcript >>
           ELSE LET text == readTranscriptFile(tmp, transcriptPath)
                IN  /\ transcript' = [transcript EXCEPT ![i] = text]
                    /\ doc' = insertTranscriptBelowRange(
                                  doc, sel.startPos, sel.endPos, text)
                    /\ notices' = [notices EXCEPT ![i] = @ \o <<InsertedNotice>>]
                    /\ outcome' = [outcome EXCEPT ![i] = "inserted"]
                    /\ stages' = [stages EXCEPT ![i] = @ \o <<"read", "insert">>]
                    /\ UNCHANGED console
    /\ UNCHANGED << localFs, tmp, noteContent, audioFiles, buttons, modalOpen,
                    prompts, clicked, selected, absoluteAudioPath, pureVars, cmdVars >>

Next ==
    \E i \in Inv :
        \/ Invoke(i)
        \/ \E k \in 1..Len(buttons[i]) : ClickItem(i, k)
        \/ ClickCancel(i)
        \/ CloseModal(i)
        \/ ProcWrite(i)
        \/ ExecRejected(i)
        \/ ExecResolved(i)

Spec == Init /\ [][Next]_vars

\* ------------------------------------ the command's checkCallback, whole
\* checkCallback(checking) with or without an active Markdown view: false
\* without one, true and nothing else when checking, else
\* transcribeAudioInCurrentNote is started (not awaited) and true returned.
checkCallback_IgnoreChecking(checking, mdView) ==
    IF ~mdView
    THEN /\ calls < MaxCalls
         /\ returned(checking, FALSE, FALSE)
         /\ UNCHANGED << pipeVars, pureVars >>
    ELSE /\ returned(checking, TRUE, TRUE)
         /\ \E i \in Inv : transcribeAudioInCurrentNote(i)

checkCallback(checking, mdView) ==
    IF ~mdView
    THEN /\ calls < MaxCalls
         /\ returned(checking, FALSE, FALSE)
         /\ UNCHANGED << pipeVars, pureVars >>
    ELSE IF checking
    THEN /\ calls < MaxCalls
         /\ returned(TRUE, TRUE, TRUE)
         /\ UNCHANGED << pipeVars, pureVars >>
    ELSE /\ returned(FALSE, TRUE, TRUE)
         /\ \E i \in Inv : transcribeAudioInCurrentNote(i)

StepPipeline ==
    \E i \in Inv :
        \/ \E k \in 1..Len(buttons[i]) : ClickItem(i, k)
        \/ ClickCancel(i)
        \/ CloseModal(i)
        \/ ProcWrite(i)
        \/ ExecRejected(i)
        \/ ExecResolved(i)

NextCmd ==
    \/ \E checking, mdView \in BOOLEAN : checkCallback(checking, mdView)
    \/ StepPipeline

SpecCmd == Init /\ [][NextCmd]_vars

\* ------------------------- insertTranscriptBelowRange called directly
\* The characters of the enumerated document texts.
TextChars == {"a", NL}

RECURSIVE SeqsUpTo(_, _)
SeqsUpTo(S, n) ==
    IF n = 0 THEN {<<>>}
    ELSE LET shorter == SeqsUpTo(S, n - 1)
         IN  shorter \cup { Append(s, c) : s \in shorter, c \in S }

\* The text of the offset-to-line example.
ExampleText == <<"a", "b", "c", "\n", "d", "e", "f", "\n", "g", "h", "i">>

Texts == SeqsUpTo(TextChars, MaxLen) \cup {ExampleText}

Transcripts == { <<>>, <<"t">>, <<"t", "\n", "u">> }

InitInsert ==
    /\ doc \in Texts
    /\ localFs = TRUE
    /\ PipelineIdle
    /\ \E e \in 0..Len(doc), t \in Transcripts :
          \E s \in 0..e :
              insArgs = [content |-> doc, startPos |-> s,
                         endPos |-> e, transcript |-> t]
    /\ insPos = <<>>
    /\ ScanIdle
    /\ NamingIdle

\* insertTranscriptBelowRange(editor, startPos, endPos, transcript) on the
\* editor holding doc.
CallInsert ==
    /\ insPos = <<>>
    /\ insPos' = <<insertionPos(doc, insArgs.endPos)>>
    /\ doc' = insertTranscriptBelowRange(doc, insArgs.startPos,
                                         insArgs.endPos, insArgs.transcript)
    /\ UNCHANGED << localFs, tmp, pc, noteContent, audioFiles, buttons,
                    modalOpen, prompts, clicked, selected, absoluteAudioPath,
                    proc, transcript, notices, stages, outcome, console,
                    insArgs, scanVars, cmdVars, namVars, edits >>

NextInsert == CallInsert

SpecInsert == InitInsert /\ [][NextInsert]_vars

\* --------------------- the scanner and the resolver called directly
Upper(c) ==
    IF \E k \in 1..Len(LowerChars) : LowerChars[k] = c
    THEN UpperChars[CHOOSE k \in 1..Len(LowerChars) : LowerChars[k] = c]
    ELSE c

toUpper(s) == [k \in 1..Len(s) |-> Upper(s[k])]

\* An extension in one of three letter cases.
LetterCases == {"lower", "upper", "mixed"}

withCase(x, c) ==
    IF c = "lower" THEN x
    ELSE IF c = "upper" THEN toUpper(x)
    ELSE <<Upper(x[1])>> \o SubSeq(x, 2, Len(x))

\* The two reference syntaxes the pattern's alternatives accept.
mdRef(label, path) == <<"[">> \o label \o <<"]", "(">> \o path \o <<")">>

wikiRef(path) == <<"[", "[">> \o path \o <<"]", "]">>

Stems == { <<"a">>, <<"d", "/", "b", " ", "c">>, <<"x", ".", "y">> }

Labels == { <<>>, <<"l">> }

\* Text around a single reference: none, an earlier line, a task checkbox.
Prefixes == { <<>>, <<"p", "\n">>, <<"-", " ", "[", " ", "]", " ">> }

Suffixes == { <<>>, <<" ", "s">> }

\* The documents holding a single well-formed reference: its path, and the
\* zero-based offsets of its opening bracket and just after its closing
\* delimiter.
scanInput(kind, pre, ref, path, suf) ==
    [kind |-> kind, text |-> pre \o ref \o suf, path |-> path,
     start |-> Len(pre), end |-> Len(pre) + Len(ref)]

SingleRefs ==
    LET paths == { s \o <<".">> \o withCase(audioExtensions[e], c) :
                       s \in Stems, e \in 1..Len(audioExtensions),
                       c \in LetterCases }
    IN  { scanInput("single", pre, mdRef(l, p), p, suf) :
              pre \in Prefixes, l \in Labels, p \in paths, suf \in Suffixes }
        \cup
        { scanInput("single", pre, wikiRef(p), p, suf) :
              pre \in Prefixes, p \in paths, suf \in Suffixes }

\* Paths whose extension is none of audioExtensions.
OtherPaths ==
    { <<"n", "o", "t", "e", "s", "m", "p", "3">>, <<"a", ".", "x", "m", "p", "3">>, <<"a", ".", "t", "x", "t">>, <<"a", ".", "m", "p", "4">>, <<"a", ".", "m", "p", "3", "x">>, <<"m", "p", "3">> }

OtherRefs ==
    { scanInput("other", <<>>, mdRef(<<"l">>, p), p, <<>>) : p \in OtherPaths }
    \cup { scanInput("other", <<>>, wikiRef(p), p, <<>>) : p \in OtherPaths }

\* Pieces of document text: brackets, complete references (resolvable and
\* not), and the tail of a reference.
Pieces ==
    { <<"[">>, <<"]">>, <<"x">>, <<"(", "c", ".", "W", "A", "V", ")">>, <<"[", "[", "c", ".", "W", "A", "V", "]", "]">>, <<"[", "l", "]", "(", "z", "z", ".", "m", "p", "3", ")">> }

RECURSIVE PieceTexts(_)
PieceTexts(n) ==
    IF n = 0 THEN {<<>>}
    ELSE LET shorter == PieceTexts(n - 1)
         IN  shorter \cup { s \o p : s \in shorter, p \in Pieces }

PieceDocs ==
    { scanInput("pieces", <<>>, t, <<>>, <<>>) : t \in PieceTexts(MaxTok) }

InitScan ==
    /\ scanIn \in SingleRefs \cup OtherRefs \cup PieceDocs
    /\ doc = scanIn.text
    /\ localFs = TRUE
    /\ PipelineIdle
    /\ InsertIdle
    /\ scanMatches = <<>>
    /\ scanResults = <<>>
    /\ scanFiles = <<>>
    /\ NamingIdle

\* findAudioLinkMatches(noteContent) of link_finder.ts.
CallFindAudioLinkMatches ==
    /\ scanMatches = <<>>
    /\ scanMatches' = <<findAudioLinkMatches(scanIn.text)>>
    /\ UNCHANGED << pipeVars, cmdVars, insVars, namVars, edits, scanIn, scanResults, scanFiles >>

\* findAudioLinks(noteContent) of main.ts.
CallFindAudioLinks ==
    /\ scanResults = <<>>
    /\ scanResults' = <<findAudioLinks(scanIn.text)>>
    /\ UNCHANGED << pipeVars, cmdVars, insVars, namVars, edits, scanIn, scanMatches, scanFiles >>

\* resolveMatchesToFiles(app, linkMatches, currentFilePath) on the matches
\* returned.
CallResolveMatchesToFiles ==
    /\ scanMatches # <<>>
    /\ scanFiles = <<>>
    /\ scanFiles' = <<resolveMatchesToFiles(scanMatches[1])>>
    /\ UNCHANGED << pipeVars, cmdVars, insVars, namVars, edits, scanIn, scanMatches, scanResults >>

NextScan ==
    \/ CallFindAudioLinkMatches
    \/ CallFindAudioLinks
    \/ CallResolveMatchesToFiles

SpecScan == InitScan /\ [][NextScan]_vars

\* ------------------- the names of one audio file, derived directly
\* Folders of the vault, one of them named like an audio file.
NameDirs == { <<>>, <<"d", "/">>, <<"d", ".", "m", "p", "3", "/">> }

\* File names without their extension: plain, with a space, with an
\* earlier dot, ending in an audio extension, and empty.
NameStems == { <<"m">>, <<"a", " ", "b">>, <<"x", ".", "y">>, <<"n", ".", "m", "p", "3">>, <<>> }

\* What follows the stem: a dot and an extension of audioExtensions in any
\* letter case (recognized), or something else.
NameExts ==
    { [ext |-> <<".">> \o withCase(audioExtensions[e], c), recognized |-> TRUE] :
          e \in 1..Len(audioExtensions), c \in LetterCases }
    \cup { [ext |-> x, recognized |-> FALSE] :
               x \in { <<".", "t", "x", "t">>, <<".", "m", "p", "4">>, <<"_", "w", "a", "v">>, <<".", "m", "4", "a", ".", "b", "a", "k">> } }

InitNaming ==
    /\ \E d \in NameDirs, s \in NameStems, x \in NameExts :
          namIn = [dir |-> d, stem |-> s, ext |-> x.ext,
                   recognized |-> x.recognized]
    /\ namOut = <<>>
    /\ doc = <<>>
    /\ localFs = TRUE
    /\ PipelineIdle
    /\ InsertIdle
    /\ ScanIdle

\* Steps 4 to 6 of transcribeAudioInCurrentNote for the file namIn:
\* absoluteAudioPath = path.join(vaultRoot, tfile.path), the arguments
\* runWhisperCLI(whisperBinPath, absoluteAudioPath, model) gives the
\* process, and getTranscriptPathInTmp(absoluteAudioPath).
DeriveNames ==
    /\ namOut = <<>>
    /\ LET p == pathJoin(VaultRoot, namIn.dir \o namIn.stem \o namIn.ext)
       IN  namOut' = << [audioPath |-> p,
                         args |-> whisperArgs(p, WhisperModel),
                         transcriptPath |-> getTranscriptPathInTmp(p)] >>
    /\ UNCHANGED << pipeVars, cmdVars, insVars, scanVars, namIn, edits >>

NextNaming == DeriveNames

SpecNaming == InitNaming /\ [][NextNaming]_vars

\* ------------------------- the note edited while invocations are suspended
\* A note that begins with a letter before its reference.
DocLead == <<"x", "[", "[", "c", ".", "W", "A", "V", "]", "]", "\n", "y">>

\* A note that references one recording on each of its two lines.
DocTwoLines == <<"[", "[", "c", ".", "W", "A", "V", "]", "]", "\n", "[", "[", "c", ".", "W", "A", "V", "]", "]">>

EditDocs == { DocTwoLines, DocLead }

InitEdit ==
    /\ doc \in EditDocs
    /\ localFs = TRUE
    /\ PipelineIdle
    /\ InsertIdle
    /\ ScanIdle
    /\ NamingIdle

\* The user edits the note in the editor while an invocation is suspended
\* (between its editor.getValue() and its insertion): a line break typed
\* at the top of the note, or the note's leading letter deleted.
UserEdit ==
    /\ edits < MaxEdits
    /\ \E i \in Inv : pc[i] \in {"modal", "whisper"}
    /\ edits' = edits + 1
    /\ \/ doc' = <<NL>> \o doc
       \/ /\ doc # <<>>
          /\ doc[1] = "x"
          /\ doc' = Tail(doc)
    /\ UNCHANGED << localFs, tmp, pc, noteContent, audioFiles, buttons,
                    modalOpen, prompts, clicked, selected, absoluteAudioPath,
                    proc, transcript, notices, stages, outcome, console,
                    cmdVars, insVars, scanVars, namVars >>

NextEdit ==
    \/ Next
    \/ UserEdit

SpecEdit == InitEdit /\ [][NextEdit]_vars

\* ============================================================== claims
IsPrefix(s, t) == Len(s) <= Len(t) /\ s = SubSeq(t, 1, Len(s))

Has(s, x) == \E k \in 1..Len(s) : s[k] = x

Count(s, x) == Cardinality({ k \in 1..Len(s) : s[k] = x })

\* C1, state part: the stages an invocation has entered are an initial part
\* of scan, resolve, select, abspath, launch, read, insert, and a stage is
\* entered only when every earlier one succeeded: select with a resolved
\* reference, abspath with a reference selected, launch with a local file
\* system, read after exit status 0, insert after a readable transcript file.
C1_StagesState ==
    \A i \in Inv :
        /\ IsPrefix(stages[i], StageOrder)
        /\ Has(stages[i], "select") => Len(audioFiles[i]) >= 1
        /\ Has(stages[i], "abspath") => selected[i] # <<>>
        /\ Has(stages[i], "launch") => localFs /\ absoluteAudioPath[i] # <<>>
        /\ Has(stages[i], "read") => proc[i] = "exit0"
        /\ Has(stages[i], "insert") =>
               /\ canRead(tmp, getTranscriptPathInTmp(absoluteAudioPath[i][1]))
               /\ outcome[i] = "inserted"
        /\ outcome[i] \in {"nolinks", "cancelled", "notlocal", "procfail",
                           "readfail"} => ~Has(stages[i], "insert")

\* C1, step part: an invocation that has ended enters no further stage, and
\* the document text changes only in a step in which some invocation enters
\* its insert stage.
C1_StagesStep ==
    /\ \A i \in Inv : pc[i] = "done" => stages'[i] = stages[i]
    /\ doc' # doc =>
           \E i \in Inv : ~Has(stages[i], "insert") /\ stages'[i] = StageOrder

\* C1: the stages run strictly in order, a failed stage ends the
\* invocation with no later stage run, and the document is changed only by
\* the insertion of an invocation whose earlier stages all succeeded.
C1_SequentialAbort == [](C1_StagesState) /\ [][C1_StagesStep]_vars

\* C1 witness: one invocation inserted after all seven stages while another
\* ended at a failed whisper process.
C1_Witness ==
    \E i, j \in Inv :
        /\ stages[i] = StageOrder /\ outcome[i] = "inserted"
        /\ outcome[j] = "procfail" /\ pc[j] = "done"

\* The buttons of a prompt for the given resolved references: one per
\* reference in order, then Cancel.
C2_ButtonsFor(bs, files) ==
    /\ Len(bs) = Len(files) + 1
    /\ \A k \in 1..Len(files) :
           bs[k].value = <<files[k]>> /\ bs[k].text = files[k].tfile.path
    /\ bs[Len(bs)].value = <<>>

\* C2: with n resolved references, n = 0 shows the notice and ends without
\* a prompt; n = 1 selects that reference without a prompt; n >= 2 opens
\* exactly one prompt with one button per reference in resolver order
\* (duplicates included) plus Cancel, and the pipeline continues with
\* exactly the value of the button clicked (nothing for Cancel).
C2_SelectionStep ==
    \A i \in Inv : pc[i] # "idle" =>
        LET n == Len(audioFiles[i])
        IN  /\ n = 0 => /\ prompts[i] = 0 /\ selected[i] = <<>>
                        /\ notices[i] = <<NoLinksNotice>> /\ pc[i] = "done"
            /\ n = 1 => prompts[i] = 0 /\ selected[i] = <<audioFiles[i][1]>>
            /\ n >= 2 =>
                   /\ prompts[i] = 1
                   /\ modalOpen[i] => C2_ButtonsFor(buttons[i], audioFiles[i])
                   /\ clicked[i] = <<>> => selected[i] = <<>> /\ pc[i] = "modal"
                   /\ clicked[i] # <<>> =>
                          /\ selected[i] = clicked[i][1].value
                          /\ \/ clicked[i][1].value = <<>>
                             \/ \E k \in 1..n :
                                    clicked[i][1].value = <<audioFiles[i][k]>>
                          /\ clicked[i][1].value = <<>> =>
                                 outcome[i] = "cancelled"

\* C2 witness: a prompt over two references to the same file was answered
\* with the second of them.
C2_Witness ==
    \E i \in Inv :
        /\ Len(audioFiles[i]) >= 2
        /\ audioFiles[i][1].tfile = audioFiles[i][2].tfile
        /\ clicked[i] # <<>>
        /\ selected[i] = <<audioFiles[i][2]>>

\* C3: an invocation whose prompt was cancelled has shown no notice, has
\* launched no process and has ended; the step that cancels leaves the
\* document unchanged.
C3_CancelState ==
    \A i \in Inv :
        (clicked[i] # <<>> /\ clicked[i][1].value = <<>>) =>
            /\ notices[i] = <<>>
            /\ proc[i] = "none"
            /\ ~Has(stages[i], "launch")
            /\ pc[i] = "done"

C3_CancelStep ==
    \A i \in Inv :
        (clicked[i] = <<>> /\ clicked'[i] # <<>>
            /\ clicked'[i][1].value = <<>>) => doc' = doc

C3_CancelSilent == [](C3_CancelState) /\ [][C3_CancelStep]_vars

\* C3 witness: a prompt was cancelled and its invocation has ended.
C3_Witness ==
    \E i \in Inv :
        clicked[i] # <<>> /\ clicked[i][1].value = <<>> /\ pc[i] = "done"

InFlight(i) == pc[i] \in {"modal", "whisper"}

\* C4: at most one transcription request is in flight at any time: never
\* two invocations both past the scan and not yet ended.
C4_OneInFlight == Cardinality({ i \in Inv : InFlight(i) }) <= 1

\* C5: the transcript an invocation inserts is the text its own whisper run
\* wrote for its own selected audio file.
C5_OwnTranscript ==
    \A i \in Inv :
        outcome[i] = "inserted" =>
            transcript[i] = trim(recordingText(selected[i][1].tfile.path))

\* Number of newline characters in s[0..e).
CountNL(s, e) == Cardinality({ k \in 1..Min(e, Len(s)) : s[k] = NL })

\* C6: for every text and end offset e with 0 <= e <= length(text), the
\* insertion position is (line = L + 1, column = 0), L the number of newline
\* characters in text[0..e).
C6_InsertionPosition ==
    insPos # <<>> =>
        insPos[1] = [line |-> CountNL(insArgs.content, insArgs.endPos) + 1,
                     ch |-> 0]

\* C6 witness: the call on "abc\ndef\nghi" with end offset 7 computed
\* insertion line 2.
C6_Witness ==
    /\ insArgs.content = ExampleText /\ insArgs.endPos = 7
    /\ insPos = << [line |-> 2, ch |-> 0] >>

\* C7: after insertTranscriptBelowRange the text is the text before the
\* call with the transcript block (line break, header, line break,
\* transcript, line break) inserted at one offset p: the first p characters
\* and the characters after p are kept, p is not before the end of the
\* reference, so the span [startPos, endPos) holds the same characters at
\* the same offsets.
C7_PureInsertion ==
    insPos # <<>> =>
        LET c == insArgs.content
            grown == Len(doc) - Len(c)
        IN  /\ grown > 0
            /\ \E p \in insArgs.endPos..Len(c) :
                   /\ SubSeq(doc, 1, p) = SubSeq(c, 1, p)
                   /\ SubSeq(doc, p + grown + 1, Len(doc))
                          = SubSeq(c, p + 1, Len(c))
                   /\ SubSeq(doc, p + 1, p + grown)
                          = <<NL>> \o CalloutHeader \o <<NL>>
                            \o insArgs.transcript \o <<NL>>
            /\ \A k \in (insArgs.startPos + 1)..insArgs.endPos :
                   doc[k] = c[k]

\* C7 witness: an insertion below a non-empty span on the last line, where
\* no line follows the span.
C7_Witness ==
    /\ insPos # <<>>
    /\ insArgs.startPos < insArgs.endPos
    /\ insPos[1].line + 1 > Len(split(insArgs.content, NL))

\* The step in which invocation i inserts, having found one reference in a
\* document that is still the text it scanned.
C8_InsertsBelowOnlyReference(i) ==
    /\ outcome[i] = "none" /\ outcome'[i] = "inserted"
    /\ Len(audioFiles[i]) = 1
    /\ doc = noteContent[i]

\* The text T of the transcript file of invocation i.
C8_TranscriptText(i) ==
    trim(tmp[getTranscriptPathInTmp(absoluteAudioPath[i][1])][1])

\* C8 as stated: the reference's line is unchanged and the callout block
\* (header line, then exactly T) starts on the line immediately following
\* it, whether or not further lines follow the reference.
C8_BlockOnNextLine ==
    [][ \A i \in Inv : C8_InsertsBelowOnlyReference(i) =>
          LET before == split(doc, NL)
              after == split(doc', NL)
              tl == split(C8_TranscriptText(i), NL)
              L == CountNL(doc, selected[i][1].endPos)
          IN  /\ SubSeq(after, 1, L + 1) = SubSeq(before, 1, L + 1)
              /\ Len(after) >= L + 2 + Len(tl)
              /\ after[L + 2] = CalloutHeader
              /\ SubSeq(after, L + 3, L + 2 + Len(tl)) = tl ]_vars

\* C8 amended: the reference's line is unchanged and the callout block
\* (header line, then exactly T) follows it: on the line immediately
\* following when the reference is on the last line, after one empty line
\* when further lines follow the reference.
C8_BlockBelowReference ==
    [][ \A i \in Inv : C8_InsertsBelowOnlyReference(i) =>
          LET before == split(doc, NL)
              after == split(doc', NL)
              tl == split(C8_TranscriptText(i), NL)
              L == CountNL(doc, selected[i][1].endPos)
              gap == IF L + 2 <= Len(before) THEN 1 ELSE 0
          IN  /\ SubSeq(after, 1, L + 1) = SubSeq(before, 1, L + 1)
              /\ Len(after) >= L + 2 + gap + Len(tl)
              /\ gap = 1 => after[L + 2] = <<>>
              /\ after[L + 2 + gap] = CalloutHeader
              /\ SubSeq(after, L + 3 + gap, L + 2 + gap + Len(tl)) = tl
              /\ transcript'[i] = C8_TranscriptText(i) ]_vars

\* C8 witness: an invocation with one reference, followed by a further
\* line, has inserted.
C8_Witness ==
    \E i \in Inv :
        /\ outcome[i] = "inserted"
        /\ Len(audioFiles[i]) = 1
        /\ CountNL(noteContent[i], selected[i][1].endPos) + 2
               <= Len(split(noteContent[i], NL))
        /\ Len(doc) > Len(noteContent[i])

\* Index of the callout header among the given lines (0 when absent).
C9_HeaderLine(lines) ==
    IF \E k \in 1..Len(lines) : lines[k] = CalloutHeader
    THEN CHOOSE k \in 1..Len(lines) : lines[k] = CalloutHeader
    ELSE 0

\* C9 as stated: the block is the header line followed by the transcript,
\* with an empty line between it and the document text before it and an
\* empty line between it and the document text after it.
C9_BlankLinesAround ==
    insPos # <<>> =>
        LET before == split(insArgs.content, NL)
            after == split(doc, NL)
            tl == split(insArgs.transcript, NL)
            L == CountNL(insArgs.content, insArgs.endPos)
            h == C9_HeaderLine(after)
            textBefore == insArgs.content # <<>>
            textAfter == \E k \in (L + 2)..Len(before) : before[k] # <<>>
        IN  /\ h > 0
            /\ SubSeq(after, h + 1, h + Len(tl)) = tl
            /\ textBefore => h > 1 /\ after[h - 1] = <<>>
            /\ textAfter => after[h + Len(tl) + 1] = <<>>

\* C10: within one invocation whisper is launched at most once and the
\* transcript file is read at most once; it is launched only with a
\* reference selected and a local file system, exactly when a process
\* exists, and after a process failure the file is never read.
C10_NoRetries ==
    \A i \in Inv :
        /\ Count(stages[i], "launch") <= 1
        /\ Count(stages[i], "read") <= 1
        /\ Has(stages[i], "launch") <=> proc[i] # "none"
        /\ proc[i] # "none" => selected[i] # <<>> /\ localFs
        /\ proc[i] = "failed" =>
               /\ ~Has(stages[i], "read")
               /\ pc[i] = "done"
               /\ transcript[i] = <<>>

\* C10 witness: the whisper process of an invocation failed after it had
\* written its output file, and the invocation has ended.
C10_Witness ==
    \E i \in Inv :
        /\ proc[i] = "failed" /\ pc[i] = "done"
        /\ canRead(tmp, getTranscriptPathInTmp(absoluteAudioPath[i][1]))

\* Number of callout header lines in a text.
HeaderCount(text) ==
    Cardinality({ k \in 1..Len(split(text, NL)) :
                      split(text, NL)[k] = CalloutHeader })

\* Invocation j scanned the document as the successful invocation i left
\* it: the two runs are in sequence on the same document.
C11_RanAfter(i, j) ==
    /\ i # j
    /\ outcome[i] = "inserted"
    /\ pc[j] # "idle"
    /\ noteContent[j] # noteContent[i]
    /\ HeaderCount(noteContent[j]) = HeaderCount(noteContent[i]) + 1
    /\ SubSeq(noteContent[j], 1, selected[i][1].endPos)
           = SubSeq(noteContent[i], 1, selected[i][1].endPos)

\* C11: the command is not idempotent.  When a second run scans the
\* document the first successful run left, the first run's reference is
\* still among the second run's resolved references, with its offsets; and
\* when the second run inserts for that same reference, the document holds
\* two more transcript blocks than before the first run (no dedup).
C11_NotIdempotent ==
    \A i, j \in Inv :
        C11_RanAfter(i, j) =>
            /\ \E k \in 1..Len(audioFiles[j]) :
                   audioFiles[j][k] = selected[i][1]
            /\ (outcome[j] = "inserted" /\ selected[j] = selected[i]) =>
                   HeaderCount(doc) >= HeaderCount(noteContent[i]) + 2

\* C11 witness: two runs in sequence inserted for the same reference.
C11_Witness ==
    \E i, j \in Inv :
        /\ C11_RanAfter(i, j)
        /\ outcome[j] = "inserted"
        /\ selected[j] = selected[i]
        /\ HeaderCount(doc) = 2

\* The one match expected for a single reference.
C12_Expected(pathField) ==
    [x \in {pathField, "startPos", "endPos"} |->
        IF x = "startPos" THEN scanIn.start
        ELSE IF x = "endPos" THEN scanIn.end
        ELSE scanIn.path]

\* C12: for a document holding a single well-formed reference, in either
\* syntax and with any recognized extension in any letter case, the scanner
\* (findAudioLinkMatches, and findAudioLinks of main.ts) returns exactly one
\* match: its text is the embedded path, its span runs from the opening
\* bracket to just after the closing bracket or parenthesis.
C12_SingleReference ==
    scanIn.kind = "single" =>
        /\ scanMatches # <<>> => scanMatches[1] = << C12_Expected("linkText") >>
        /\ scanResults # <<>> => scanResults[1] = << C12_Expected("filePath") >>

\* C12 witness: both scanners have returned for an upper-case extension in
\* the wiki syntax, after other text.
C12_Witness ==
    /\ scanIn.kind = "single"
    /\ scanIn.text = <<"-", " ", "[", " ", "]", " ", "[", "[", "d", "/", "b", " ", "c", ".", "F", "L", "A", "C", "]", "]", " ", "s">>
    /\ scanMatches # <<>> /\ Len(scanMatches[1]) = 1
    /\ scanResults # <<>> /\ Len(scanResults[1]) = 1

\* C13: the scanner emits no match for a reference whose file extension is
\* none of mp3, wav, m4a, flac, ogg, aac ("notesmp3" has none, "a.xmp3" has
\* "xmp3").
C13_NoMatchForOtherExtension ==
    scanIn.kind = "other" =>
        /\ scanMatches # <<>> => scanMatches[1] = <<>>
        /\ scanResults # <<>> => scanResults[1] = <<>>

\* Spans within the text, each after the one before it.
C14_Ordered(matches, text) ==
    /\ \A k \in 1..Len(matches) :
           /\ 0 <= matches[k].startPos
           /\ matches[k].startPos < matches[k].endPos
           /\ matches[k].endPos <= Len(text)
    /\ \A k \in 1..(Len(matches) - 1) :
           matches[k].endPos <= matches[k + 1].startPos

\* The text is a sequence of whole references [[c.WAV]] and letters x;
\* refs counts the references.
RECURSIVE C14_WholeRefs(_, _)
C14_WholeRefs(text, refs) ==
    LET ref == <<"[", "[", "c", ".", "W", "A", "V", "]", "]">>
    IN  IF text = <<>> THEN refs = 0
        ELSE IF text[1] = "x" THEN C14_WholeRefs(Tail(text), refs)
        ELSE /\ refs > 0
             /\ Len(text) >= Len(ref)
             /\ SubSeq(text, 1, Len(ref)) = ref
             /\ C14_WholeRefs(SubSeq(text, Len(ref) + 1, Len(text)), refs - 1)

\* C14: for every document text the matches returned have
\* startPos < endPos <= length(text), and each match ends at or before the
\* start of the next (left to right, non-overlapping); a path referenced n
\* times yields n matches with that path and distinct spans.
C14_OrderedSpans ==
    /\ scanMatches # <<>> =>
          /\ C14_Ordered(scanMatches[1], scanIn.text)
          /\ \A n \in 0..(MaxTok + 1) :
                 C14_WholeRefs(scanIn.text, n) =>
                     /\ Len(scanMatches[1]) = n
                     /\ \A k \in 1..n : scanMatches[1][k].linkText = <<"c", ".", "W", "A", "V">>
                     /\ \A k, h \in 1..n :
                            k # h => scanMatches[1][k].startPos
                                         # scanMatches[1][h].startPos
    /\ scanResults # <<>> => C14_Ordered(scanResults[1], scanIn.text)

\* C14 witness: the same path referenced twice gave two matches.
C14_Witness ==
    /\ scanIn.text = <<"[", "[", "c", ".", "W", "A", "V", "]", "]", "x", "[", "[", "c", ".", "W", "A", "V", "]", "]">>
    /\ scanMatches # <<>>
    /\ Len(scanMatches[1]) = 2
    /\ scanMatches[1][1].linkText = scanMatches[1][2].linkText

\* A match's link text resolves to a file of the vault.
C15_Resolves(match) == match.linkText \in VaultFiles

\* C15: resolveMatchesToFiles returns the order-preserving subsequence of
\* the matches that resolve: there is a strictly increasing map from the
\* output's positions onto the positions of the resolving matches, and each
\* output entry is the resolved file with its match's unchanged startPos
\* and endPos (so the output is no longer than the input and holds no entry
\* for an unresolved match).
C15_ResolvedSubsequence ==
    scanFiles # <<>> =>
        LET in == scanMatches[1]
            out == scanFiles[1]
        IN  /\ Len(out) <= Len(in)
            /\ \E f \in [1..Len(out) -> 1..Len(in)] :
                   /\ \A a, b \in 1..Len(out) : a < b => f[a] < f[b]
                   /\ \A k \in 1..Len(in) :
                          C15_Resolves(in[k]) <=>
                              \E a \in 1..Len(out) : f[a] = k
                   /\ \A a \in 1..Len(out) :
                          out[a] = [tfile |-> [path |-> in[f[a]].linkText],
                                    startPos |-> in[f[a]].startPos,
                                    endPos |-> in[f[a]].endPos]

\* C15 witness: of three matches the first and the last resolved.
C15_Witness ==
    /\ scanFiles # <<>>
    /\ Len(scanMatches[1]) = 3
    /\ Len(scanFiles[1]) = 2
    /\ ~C15_Resolves(scanMatches[1][2])
    /\ scanFiles[1][2].startPos = scanMatches[1][3].startPos

\* The pipelines a step starts.
C16_Started == { i \in Inv : pc[i] = "idle" /\ pc'[i] # "idle" }

\* C16: the command is enabled only when a Markdown view is active.  A step
\* that is no call of checkCallback starts no pipeline; a call without an
\* active view returns false and starts none; a call in checking mode
\* starts none (and returns true with a view); a non-checking call with an
\* active view returns true and starts exactly one.
C16_CommandStep ==
    IF calls' = calls
    THEN C16_Started = {}
    ELSE /\ calls' = calls + 1
         /\ lastCall' # <<>>
         /\ LET call == lastCall'[1]
            IN  /\ call.ret = call.mdView
                /\ Cardinality(C16_Started) =
                       IF call.mdView /\ ~call.checking THEN 1 ELSE 0

C16_EnabledOnlyWithView == [][C16_CommandStep]_vars

\* C16 witness: after a call without a view and a call in checking mode,
\* each of which started nothing, a non-checking call started a pipeline.
C16_Witness ==
    /\ calls = MaxCalls + 1
    /\ lastCall = << [checking |-> FALSE, mdView |-> TRUE, ret |-> TRUE] >>
    /\ pc[1] # "idle"
    /\ pc[2] = "idle"

\* The terminal notices: every notice but the progress notice.
C17_TerminalMsgs ==
    { NoLinksNotice.msg, NotLocalNotice.msg, WhisperErrorNotice.msg,
      ReadErrorNotice.msg, InsertedNotice.msg }

C17_Terminal(i) == SelectSeq(notices[i], LAMBDA n : n.msg \in C17_TerminalMsgs)

\* The invocation ended because the user cancelled the selection.
C17_Cancelled(i) ==
    pc[i] = "done" /\ audioFiles[i] # <<>> /\ selected[i] = <<>>

\* The terminal notice of how an ended invocation ended: no reference
\* resolved, the adapter is no FileSystemAdapter, whisper failed, the
\* transcript could not be read, or none of these.
C17_Expected(i) ==
    IF audioFiles[i] = <<>> THEN NoLinksNotice
    ELSE IF ~localFs THEN NotLocalNotice
    ELSE IF proc[i] = "failed" THEN WhisperErrorNotice
    ELSE IF console[i] # <<>> THEN ReadErrorNotice
    ELSE InsertedNotice

C17_ReportState ==
    \A i \in Inv :
        /\ C17_Terminal(i) =
               IF pc[i] = "done" /\ ~C17_Cancelled(i)
               THEN << C17_Expected(i) >> ELSE <<>>
        /\ \A k \in 1..Len(C17_Terminal(i)) : C17_Terminal(i)[k].arg = <<>>
        /\ proc[i] = "failed" =>
               /\ Len(console[i]) = 1
               /\ console[i][1].err \in ExecErrors

C17_ReportStep ==
    \A i \in Inv :
        (Has(notices'[i], InsertedNotice) /\ ~Has(notices[i], InsertedNotice))
            => /\ doc' = insertTranscriptBelowRange(
                             doc, selected[i][1].startPos,
                             selected[i][1].endPos, transcript'[i])
               /\ Len(doc') > Len(doc)

\* C17: an invocation that ended otherwise than by cancellation has shown
\* exactly one terminal notice, the one of its outcome, and any other
\* invocation none; the success notice appears in the step that performs
\* the insertion, so never with a failure notice; the failure notices are
\* fixed texts without the error, which only the console receives.
C17_TerminalReporting == [](C17_ReportState) /\ [][C17_ReportStep]_vars

\* C17 witness: one invocation ended with the whisper failure notice, the
\* other with the success notice.
C17_Witness ==
    \E i, j \in Inv :
        /\ proc[i] = "failed"
        /\ C17_Terminal(i) = << WhisperErrorNotice >>
        /\ console[i] # <<>>
        /\ C17_Terminal(j) = << InsertedNotice >>

\* The value following an option in the arguments given to the process.
C18_Option(args, name) ==
    args[(CHOOSE k \in 1..(Len(args) - 1) : args[k] = name) + 1]

\* C18: the transcript path that is read is
\* <the --output_dir given to the process>/<base name of p without one
\* trailing recognized audio extension, in any letter case>.txt, and the
\* audio path given to the process is the p the transcript path is derived
\* from.
C18_NamingContract ==
    namOut # <<>> =>
        LET out == namOut[1]
            core == IF namIn.recognized THEN namIn.stem
                    ELSE namIn.stem \o namIn.ext
        IN  /\ out.args[1] = out.audioPath
            /\ out.transcriptPath =
                   C18_Option(out.args, <<"-", "-", "o", "u", "t", "p", "u", "t", "_", "d", "i", "r">>) \o <<"/">> \o core
                       \o <<".", "t", "x", "t">>

\* C18 witness: the names of a file with an upper-case extension after an
\* earlier audio extension, in a folder named like an audio file.
C18_Witness ==
    /\ namOut # <<>>
    /\ namOut[1].audioPath = <<"/", "v", "/", "d", ".", "m", "p", "3", "/", "n", ".", "m", "p", "3", ".", "W", "A", "V">>
    /\ namOut[1].transcriptPath = <<"/", "t", "m", "p", "/", "n", ".", "m", "p", "3", ".", "t", "x", "t">>

\* C19: no invocation stays suspended after its prompt has closed: an
\* invocation waiting for the selection has its prompt open (so that a
\* dismissal of the prompt, of whatever kind, lets it go on to a terminal
\* outcome).
C19_NoSuspensionAfterClose ==
    \A i \in Inv : pc[i] = "modal" => modalOpen[i]

\* The step performs the insertion of invocation i.
C20_Inserts(i) == Has(stages'[i], "insert") /\ ~Has(stages[i], "insert")

\* The selected reference of invocation i where it now is in the note: the
\* reference of the same rank among those the note resolves to.
C20_Current(i) ==
    resolveMatchesToFiles(findAudioLinkMatches(doc))
        [CHOOSE k \in 1..Len(audioFiles[i]) : audioFiles[i][k] = selected[i][1]]

\* text with the block of transcript t put on the line following offset
\* off: after the first line break at or after off, or at the end of the
\* text when there is none.
C20_Below(text, off, t) ==
    LET q == IF \E k \in (off + 1)..Len(text) : text[k] = NL
             THEN CHOOSE k \in (off + 1)..Len(text) :
                      text[k] = NL /\ \A j \in (off + 1)..(k - 1) : text[j] # NL
             ELSE Len(text)
    IN  SubSeq(text, 1, q) \o insertionText(t) \o SubSeq(text, q + 1, Len(text))

\* The step's insertion put the block on the line following the selected
\* reference.
C20_Landed(i) == doc' = C20_Below(doc, C20_Current(i).endPos, transcript'[i])

\* C20 as stated: the block lands on the line following the selected
\* reference only when no edit changed the number of newlines before the
\* reference's end since the scan.
C20_OnlyWhenNewlinesKept ==
    [][\A i \in Inv :
          (C20_Inserts(i) /\ C20_Landed(i)) =>
              CountNL(doc, C20_Current(i).endPos)
                  = CountNL(noteContent[i], selected[i][1].endPos)]_vars

\* C20 amended: the insertion applies the end offset captured at the scan,
\* unchanged, to the text read at insertion time; the block lands on the
\* line following the selected reference exactly when the first endPos
\* characters of that text hold as many newlines as the text before the
\* reference's present end.
C20_StaleOffsetStep ==
    \A i \in Inv :
        C20_Inserts(i) =>
            /\ doc' = insertTranscriptBelowRange(
                          doc, selected[i][1].startPos, selected[i][1].endPos,
                          transcript'[i])
            /\ C20_Landed(i) <=>
                   CountNL(doc, selected[i][1].endPos)
                       = CountNL(doc, C20_Current(i).endPos)

C20_StaleOffset == [][C20_StaleOffsetStep]_vars

\* C20 witness: after the user deleted the letter before the reference, the
\* block was inserted below the line after the reference's line.
C20_Witness ==
    /\ edits = 1
    /\ outcome[1] = "inserted"
    /\ doc = <<"[", "[", "c", ".", "W", "A", "V", "]", "]", "\n", "y", "\n", ">", "[", "!", "n", "o", "t", "e", "]", " ", "T", "r", "a", "n", "s", "c", "r", "i", "p", "t", "i", "o", "n", "\n", "c", "\n", "d", "\n">>

====
